---- MODULE Spec2Model ----
(***************************************************************************)
(* relay.py: the hand tracking WebSocket relay.  One asyncio task runs     *)
(* handler() per accepted connection; tasks interleave only at awaits      *)
(* (the handshake send, wait_closed, the publisher's receive, and the      *)
(* client.send inside broadcast_to_unity).  Every action below is the run  *)
(* of one task from one await to the next.                                 *)
(***************************************************************************)
EXTENDS Integers, Sequences, FiniteSets, TLC

\* ---- bounds of the model ----
NConn == 3          \* connections accepted during the run
MaxMsgs == 2        \* messages the publishers' remote ends send in total

Conns == 1..NConn
NoConn == 0

\* Request paths a client may present; "/browser" is the reserved one.  The
\* c-th client presents either the reserved path or the c-th of the others.
BrowserPath == "/browser"
OtherPaths == <<"/", "/unity", "/browser/", "">>
Paths == {BrowserPath} \cup {OtherPaths[i] : i \in 1..Len(OtherPaths)}
PathsOf(c) == {BrowserPath, OtherPaths[((c - 1) % Len(OtherPaths)) + 1]}

\* Messages.  A publisher's k-th message is an opaque payload tagged here
\* with its origin so that deliveries can be told apart.
Data(p, k) == [type |-> "data", src |-> p, seq |-> k]
Handshake == [type |-> "relay_ready", src |-> NoConn, seq |-> 0]
NoMsg == [type |-> "none", src |-> NoConn, seq |-> 0]

VARIABLES
    unity_clients,      \* set(): the subscriber registry
    browser_clients,    \* set(): the publisher registry
    messages_forwarded, \* global counter
    pc,                 \* where each connection's handler task is
    path,               \* the path each connection presented
    open,               \* transport of the connection still open
    inbox,              \* messages received on the transport, not yet read
    nsent,              \* messages sent so far by each publisher's remote end
    message,            \* broadcast_to_unity local: the message
    client,             \* broadcast_to_unity local: the loop variable
    si_used,            \* set iterator: size of the set when iteration began
    si_rem,             \* set iterator: members still ahead of the cursor
    dead,               \* broadcast_to_unity local: dead
    received,           \* per connection, the forwarded messages whose send
                        \* returned
    snap,               \* history: unity_clients when the call began
    tried,              \* history: clients a send was attempted to, in order
    failed,             \* history: clients whose send failed in the call
                        \* (the three above are kept while the call runs)
    pruned,             \* history: connections a broadcast discarded and
                        \* whose handler has not ended yet
    cause,              \* history: why the handler ended
    successes,          \* history: forwarded sends that returned normally
    hs_calls,           \* history: handshake sends begun on each connection
    hs_result,          \* history: how the handshake send of a waiting
                        \* subscriber ended; kept only when observe is set
    observe             \* whether hs_result is kept in this behaviour

vars == <<unity_clients, browser_clients, messages_forwarded, pc, path, open,
          inbox, nsent, message, client, si_used, si_rem, dead, received, snap,
          tried, failed, pruned, cause, successes, hs_calls, hs_result,
          observe>>

locals == <<message, client, si_used, dead>>
history == <<snap, tried, failed>>
handshakes == <<hs_calls, hs_result, observe>>

\* Handler positions.
\*   new    not accepted yet
\*   read   publisher suspended in `async for message in websocket`
\*   bcast  publisher suspended in `await client.send(message)`
\*   hs     subscriber suspended in the handshake `await websocket.send`
\*   wait   subscriber suspended in `await websocket.wait_closed()`
\*   done   handler returned
\*   raised handler ended with an exception escaping it
Live == {"read", "bcast", "hs", "wait"}
Ended == {"done", "raised"}

RECURSIVE SumOver(_, _)
SumOver(f, S) ==
    IF S = {} THEN 0
    ELSE LET c == CHOOSE x \in S : TRUE IN f[c] + SumOver(f, S \ {c})

TotalSent == SumOver(nsent, Conns)

Constructed ==
    /\ unity_clients = {}
    /\ browser_clients = {}
    /\ messages_forwarded = 0
    /\ pc = [c \in Conns |-> "new"]
    /\ path = [c \in Conns |-> "none"]
    /\ open = [c \in Conns |-> FALSE]
    /\ inbox = [c \in Conns |-> <<>>]
    /\ nsent = [c \in Conns |-> 0]
    /\ message = [c \in Conns |-> NoMsg]
    /\ client = [c \in Conns |-> NoConn]
    /\ si_used = [c \in Conns |-> 0]
    /\ si_rem = [c \in Conns |-> {}]
    /\ dead = [c \in Conns |-> {}]
    /\ received = [c \in Conns |-> {}]
    /\ snap = [c \in Conns |-> {}]
    /\ tried = [c \in Conns |-> <<>>]
    /\ failed = [c \in Conns |-> {}]
    /\ pruned = {}
    /\ cause = [c \in Conns |-> "none"]
    /\ successes = 0
    /\ hs_calls = [c \in Conns |-> 0]
    /\ hs_result = [c \in Conns |-> "none"]

Init == Constructed /\ observe = FALSE

\* The same start, in a behaviour that keeps the outcome of every handshake.
InitObserved == Constructed /\ observe = TRUE

\* ---- pure helpers ----

\* handler, line 69: the role a path routes to.
RoleByRoot(pth) == IF pth = "/" THEN "subscriber" ELSE "publisher"
RoleAlwaysSubscriber(pth) == "subscriber"
Role(pth) == IF pth = BrowserPath THEN "publisher" ELSE "subscriber"

\* `finally: <registry>.discard(websocket)` (lines 78-79, 102-103):
\* removes if present, no error otherwise.
DiscardNothing(S, x) == S
DiscardClear(S, x) == {}
Discard(S, x) == S \ {x}

\* `for d in dead: unity_clients.discard(d)` (lines 59-60).
DiscardNone(S, D) == S
DiscardAll(S, D) == S \ D

\* `messages_forwarded += 1` sits after the await inside the try: it runs
\* only when client.send returned normally.
ForwardedAlways(n, ok) == n + 1
Forwarded(n, ok) == IF ok THEN n + 1 ELSE n

\* `async for message in websocket` yields the received messages oldest first.
ReceiveNewest(q) == [message |-> q[Len(q)], rest |-> SubSeq(q, 1, Len(q) - 1)]
Receive(q) == [message |-> Head(q), rest |-> Tail(q)]

\* Outcomes of `await c.send(...)`: on a closed transport it raises
\* ConnectionClosed; on an open one it returns, or raises some other error.
SendOutcomes(c) == IF open[c] THEN {TRUE, FALSE} ELSE {FALSE}

\* `await c.send(m)`: the remote end has m once the send returned; the
\* payload goes out as it is.
DeliverWrapped(rcv, c, m, ok) ==
    IF ok THEN [rcv EXCEPT ![c] = @ \cup {[m EXCEPT !.type = "wrapped"]}] ELSE rcv
Deliver(rcv, c, m, ok) == IF ok THEN [rcv EXCEPT ![c] = @ \cup {m}] ELSE rcv

\* Line 89: the handler calls websocket.send with the handshake once.
HandshakeCallsTwice(n) == n + 2
HandshakeCallsNone(n) == n
HandshakeCalls(n) == n + 1

\* Lines 94-99: `except Exception: pass` catches whatever the handshake send
\* raised, so the handler reaches wait_closed on either outcome.
AfterHandshakeUncaught(ok) == IF ok THEN "wait" ELSE "raised"
AfterHandshake(ok) == "wait"

\* Lines 88-95: the handshake send returned, or raised and was swallowed.
HandshakeOutcome(ok) == IF ok THEN "delivered" ELSE "failed"

\* The publishers suspended inside the loop of broadcast_to_unity: each holds
\* a live iterator over unity_clients.
Iterating == {p \in Conns : pc[p] = "bcast"}

\* Effect of unity_clients.add(c) on the live iterators: the new entry lands
\* in a table slot ahead of a cursor (it will be visited) or behind it.
IterAfterAdd(rem, c, ahead) ==
    [p \in Conns |-> IF p \in ahead THEN rem[p] \cup {c} ELSE rem[p]]

\* Effect of unity_clients.discard on the live iterators: a removed entry is
\* no longer found by any cursor.
IterAfterDiscard(rem, D) == [p \in Conns |-> rem[p] \ D]

\* ---- the environment: clients and transports ----

\* The remote end of a publisher sends its next message.
ClientSend(p) ==
    /\ pc[p] \in {"read", "bcast"}
    /\ open[p]
    /\ TotalSent < MaxMsgs
    /\ nsent' = [nsent EXCEPT ![p] = @ + 1]
    /\ inbox' = [inbox EXCEPT ![p] = Append(@, Data(p, nsent[p] + 1))]
    /\ UNCHANGED <<unity_clients, browser_clients, messages_forwarded, pc, path,
                   open, locals, si_rem, received, history, pruned, cause,
                   successes, handshakes>>

\* The transport of a connection closes (gracefully or abruptly).  The
\* transport of a connection whose handler has ended counts as closed: no
\* code of the relay looks at it again.
TransportClose(c) ==
    /\ pc[c] \in Live
    /\ open[c]
    /\ open' = [open EXCEPT ![c] = FALSE]
    /\ UNCHANGED <<unity_clients, browser_clients, messages_forwarded, pc, path,
                   inbox, nsent, locals, si_rem, received, history, pruned, cause,
                   successes, handshakes>>

\* ---- handler(websocket, path) ----

\* Lines 64-72 and 82-89: the handler starts, routes on the path, registers
\* the connection and suspends: a publisher in its first receive, a
\* subscriber in the handshake send.
Accept(c) ==
    /\ pc[c] = "new"
    /\ \A b \in Conns : b < c => pc[b] # "new"
    /\ \E pth \in PathsOf(c) :
        /\ path' = [path EXCEPT ![c] = pth]
        /\ open' = [open EXCEPT ![c] = TRUE]
        /\ IF Role(pth) = "publisher"
           THEN /\ browser_clients' = browser_clients \cup {c}
                /\ pc' = [pc EXCEPT ![c] = "read"]
                /\ UNCHANGED <<unity_clients, si_rem, hs_calls>>
           ELSE /\ unity_clients' = unity_clients \cup {c}
                /\ \E ahead \in SUBSET Iterating :
                       si_rem' = IterAfterAdd(si_rem, c, ahead)
                /\ hs_calls' = [hs_calls EXCEPT ![c] = HandshakeCalls(@)]
                /\ pc' = [pc EXCEPT ![c] = "hs"]
                /\ UNCHANGED browser_clients
    /\ UNCHANGED <<messages_forwarded, inbox, nsent, locals, received, history,
                   pruned, cause, successes, hs_result, observe>>

\* Lines 88-99: the handshake send returns, or raises and `except Exception:
\* pass` swallows it; either way the handler goes on to wait_closed.
HandshakeDone(c) ==
    /\ pc[c] = "hs"
    /\ \E ok \in SendOutcomes(c) :
        /\ hs_result' = IF observe
                        THEN [hs_result EXCEPT ![c] = HandshakeOutcome(ok)]
                        ELSE hs_result
        /\ pc' = [pc EXCEPT ![c] = AfterHandshake(ok)]
    /\ UNCHANGED <<unity_clients, browser_clients, messages_forwarded, path,
                   open, inbox, nsent, locals, si_rem, received, history,
                   pruned, cause, successes, hs_calls, observe>>

\* Lines 99-104: wait_closed returns once the transport has closed; the
\* finally discards the connection.
\* What the connection had received goes with it.
WaitClosedDone(c) ==
    /\ pc[c] = "wait"
    /\ ~open[c]
    /\ unity_clients' = Discard(unity_clients, c)
    /\ si_rem' = IterAfterDiscard(si_rem, {c})
    /\ pc' = [pc EXCEPT ![c] = "done"]
    /\ cause' = [cause EXCEPT ![c] = "closed"]
    /\ pruned' = pruned \ {c}
    /\ received' = [received EXCEPT ![c] = {}]
    /\ hs_result' = [hs_result EXCEPT ![c] = "none"]
    /\ UNCHANGED <<browser_clients, messages_forwarded, path, open, inbox,
                   nsent, locals, history, successes, hs_calls, observe>>

\* Lines 74, 76-80: the receive ends because the transport closed (the
\* iteration stops, or ConnectionClosed is caught); the finally discards.
ReadClosed(p) ==
    /\ pc[p] = "read"
    /\ ~open[p]
    /\ browser_clients' = Discard(browser_clients, p)
    /\ pc' = [pc EXCEPT ![p] = "done"]
    /\ cause' = [cause EXCEPT ![p] = "closed"]
    /\ inbox' = [inbox EXCEPT ![p] = <<>>]
    /\ UNCHANGED <<unity_clients, messages_forwarded, path, open, nsent,
                   locals, si_rem, received, history, pruned, successes,
                   handshakes>>

\* Lines 74, 78-80: the receive raises something other than
\* ConnectionClosed; only the finally runs and the exception escapes.
ReadError(p) ==
    /\ pc[p] = "read"
    /\ open[p]
    /\ browser_clients' = Discard(browser_clients, p)
    /\ pc' = [pc EXCEPT ![p] = "raised"]
    /\ cause' = [cause EXCEPT ![p] = "receive_error"]
    /\ inbox' = [inbox EXCEPT ![p] = <<>>]
    /\ open' = [open EXCEPT ![p] = FALSE]
    /\ UNCHANGED <<unity_clients, messages_forwarded, path, nsent,
                   locals, si_rem, received, history, pruned, successes,
                   handshakes>>

\* ---- broadcast_to_unity(message), run inside the publisher's task ----

\* Lines 45-46: `if not unity_clients: return`; the handler is back in its
\* receive with nothing touched.
EmptyReturnRaises(p) ==
    /\ pc' = [pc EXCEPT ![p] = "raised"]
    /\ UNCHANGED <<locals, si_rem, history>>
EmptyReturn(p) == UNCHANGED <<pc, locals, si_rem, history>>

\* Lines 74-75, 42-51: the receive yields the next message and the handler
\* calls broadcast_to_unity.  With no subscriber the call returns at once and
\* the handler suspends in the next receive.  Otherwise `for client in
\* unity_clients` opens an iterator on the set itself, takes its first
\* member (set order is arbitrary) and the task suspends in client.send.
ReadMessage(p) ==
    /\ pc[p] = "read"
    /\ inbox[p] # <<>>
    /\ inbox' = [inbox EXCEPT ![p] = Receive(@).rest]
    /\ IF unity_clients = {}
       THEN EmptyReturn(p)
       ELSE \E c \in unity_clients :
            /\ message' = [message EXCEPT ![p] = Receive(inbox[p]).message]
            /\ client' = [client EXCEPT ![p] = c]
            /\ si_used' = [si_used EXCEPT ![p] = Cardinality(unity_clients)]
            /\ si_rem' = [si_rem EXCEPT ![p] = unity_clients \ {c}]
            /\ dead' = [dead EXCEPT ![p] = {}]
            /\ snap' = [snap EXCEPT ![p] = unity_clients]
            /\ tried' = [tried EXCEPT ![p] = <<c>>]
            /\ UNCHANGED failed
            /\ pc' = [pc EXCEPT ![p] = "bcast"]
    /\ UNCHANGED <<unity_clients, browser_clients, messages_forwarded, path,
                   open, nsent, received, pruned, cause, successes, handshakes>>

\* The members of dead after the send to client[p] has ended (lines 53-57).
DeadAfter(p, ok) == IF ok THEN dead[p] ELSE dead[p] \cup {client[p]}

\* The step below as it would be were a failed client discarded inside the
\* loop, at the except clause, instead of after it.
NextSendPruning(p, ok, n) ==
    /\ client' = [client EXCEPT ![p] = n]
    /\ si_rem' = [si_rem EXCEPT ![p] = @ \ {n}]
    /\ dead' = [dead EXCEPT ![p] = DeadAfter(p, ok)]
    /\ tried' = [tried EXCEPT ![p] = Append(@, n)]
    /\ failed' = [failed EXCEPT ![p] = IF ok THEN @ ELSE @ \cup {client[p]}]
    /\ unity_clients' = DiscardAll(unity_clients, DeadAfter(p, ok))
    /\ UNCHANGED <<browser_clients, pc, message, si_used, snap,
                   pruned, cause, inbox, open>>

\* Lines 49, 51: the iterator yields another member n; the task suspends in
\* the send to it.
NextSend(p, ok, n) ==
    /\ client' = [client EXCEPT ![p] = n]
    /\ si_rem' = [si_rem EXCEPT ![p] = @ \ {n}]
    /\ dead' = [dead EXCEPT ![p] = DeadAfter(p, ok)]
    /\ tried' = [tried EXCEPT ![p] = Append(@, n)]
    /\ failed' = [failed EXCEPT ![p] = IF ok THEN @ ELSE @ \cup {client[p]}]
    /\ UNCHANGED <<unity_clients, browser_clients, pc, message, si_used, snap,
                   pruned, cause, inbox, open>>

\* Lines 59-61, then 74: the iterator is exhausted; every member of dead is
\* discarded, the call returns and the handler suspends in the next receive.
Prune(p, ok) ==
    /\ unity_clients' = DiscardAll(unity_clients, DeadAfter(p, ok))
    /\ si_rem' = [IterAfterDiscard(si_rem, DeadAfter(p, ok)) EXCEPT ![p] = {}]
    /\ pruned' = pruned \cup (unity_clients \cap DeadAfter(p, ok))
    /\ pc' = [pc EXCEPT ![p] = "read"]
    /\ message' = [message EXCEPT ![p] = NoMsg]
    /\ client' = [client EXCEPT ![p] = NoConn]
    /\ si_used' = [si_used EXCEPT ![p] = 0]
    /\ dead' = [dead EXCEPT ![p] = {}]
    /\ snap' = [snap EXCEPT ![p] = {}]
    /\ tried' = [tried EXCEPT ![p] = <<>>]
    /\ failed' = [failed EXCEPT ![p] = {}]
    /\ UNCHANGED <<browser_clients, cause, inbox, open>>

\* The exit below as it would be were the discard of lines 78-79 written
\* after the try rather than in its finally: the exception skips it.
IterationErrorNoCleanup(p, ok) ==
    /\ pc' = [pc EXCEPT ![p] = "raised"]
    /\ cause' = [cause EXCEPT ![p] = "RuntimeError"]
    /\ inbox' = [inbox EXCEPT ![p] = <<>>]
    /\ open' = [open EXCEPT ![p] = FALSE]
    /\ message' = [message EXCEPT ![p] = NoMsg]
    /\ client' = [client EXCEPT ![p] = NoConn]
    /\ si_used' = [si_used EXCEPT ![p] = 0]
    /\ si_rem' = [si_rem EXCEPT ![p] = {}]
    /\ dead' = [dead EXCEPT ![p] = {}]
    /\ snap' = [snap EXCEPT ![p] = {}]
    /\ tried' = [tried EXCEPT ![p] = <<>>]
    /\ failed' = [failed EXCEPT ![p] = {}]
    /\ UNCHANGED <<unity_clients, browser_clients, pruned>>

\* Line 49, then 78-80: the set has another size than when the iteration
\* began, so the iterator raises RuntimeError ("Set changed size during
\* iteration").  The for statement is outside the try of lines 50-57 and the
\* handler catches only ConnectionClosed: lines 59-61 are skipped, the
\* finally of the handler runs and the exception escapes the handler.
IterationError(p, ok) ==
    /\ browser_clients' = Discard(browser_clients, p)
    /\ pc' = [pc EXCEPT ![p] = "raised"]
    /\ cause' = [cause EXCEPT ![p] = "RuntimeError"]
    /\ inbox' = [inbox EXCEPT ![p] = <<>>]
    /\ open' = [open EXCEPT ![p] = FALSE]
    /\ message' = [message EXCEPT ![p] = NoMsg]
    /\ client' = [client EXCEPT ![p] = NoConn]
    /\ si_used' = [si_used EXCEPT ![p] = 0]
    /\ si_rem' = [si_rem EXCEPT ![p] = {}]
    /\ dead' = [dead EXCEPT ![p] = {}]
    /\ snap' = [snap EXCEPT ![p] = {}]
    /\ tried' = [tried EXCEPT ![p] = <<>>]
    /\ failed' = [failed EXCEPT ![p] = {}]
    /\ UNCHANGED <<unity_clients, pruned>>

\* Lines 49-61: client.send returns or raises, and the task runs on to its
\* next await.
SendDone(p) ==
    /\ pc[p] = "bcast"
    /\ \E ok \in SendOutcomes(client[p]) :
        /\ messages_forwarded' = Forwarded(messages_forwarded, ok)
        /\ successes' = IF ok THEN successes + 1 ELSE successes
        /\ received' = Deliver(received, client[p], message[p], ok)
        /\ IF si_used[p] # Cardinality(unity_clients)
           THEN IterationError(p, ok)
           ELSE IF si_rem[p] = {}
                THEN Prune(p, ok)
                ELSE \E n \in si_rem[p] : NextSend(p, ok, n)
    /\ UNCHANGED <<path, nsent, handshakes>>

Next ==
    \/ \E c \in Conns : Accept(c)
    \/ \E c \in Conns : HandshakeDone(c)
    \/ \E c \in Conns : WaitClosedDone(c)
    \/ \E c \in Conns : ClientSend(c)
    \/ \E c \in Conns : TransportClose(c)
    \/ \E c \in Conns : ReadMessage(c)
    \/ \E c \in Conns : ReadClosed(c)
    \/ \E c \in Conns : ReadError(c)
    \/ \E c \in Conns : SendDone(c)

Spec == Init /\ [][Next]_vars

\* The event loop resumes every task whose await can complete, and every
\* pending send completes: the handshake send, the send of a broadcast, the
\* receive and the wait_closed of a closed transport.
Fairness ==
    \A c \in Conns :
        /\ WF_vars(HandshakeDone(c))
        /\ WF_vars(SendDone(c))
        /\ WF_vars(ReadClosed(c))
        /\ WF_vars(WaitClosedDone(c))

SpecFair == Spec /\ Fairness

\* The relay with the outcome of every handshake send on record.
SpecHandshake == InitObserved /\ [][Next]_vars

\* ---- the claims ----

Range(sq) == {sq[i] : i \in 1..Len(sq)}
NoRepeat(sq) == \A i, j \in 1..Len(sq) : i # j => sq[i] # sq[j]

Publishers == {c \in Conns : pc[c] # "new" /\ Role(path[c]) = "publisher"}
Subscribers == {c \in Conns : pc[c] # "new" /\ Role(path[c]) = "subscriber"}

\* The step in which the call of broadcast_to_unity made by p ends.
CallEnds(p) == pc[p] = "bcast" /\ pc'[p] # "bcast"

\* In the step that ends the call of p: the clients whose send failed in the
\* call, and those whose send returned (the last send ends in that step).
FailedInCall(p) ==
    failed[p] \cup (IF successes' = successes THEN {client[p]} ELSE {})
SucceededInCall(p) == Range(tried[p]) \ FailedInCall(p)

\* C1. Failure isolation: when a send fails in a call of broadcast_to_unity,
\* a send has still been attempted to every subscriber that was in
\* unity_clients when the call began, by the time the call ends.
C1_FailureIsolation ==
    [][\A p \in Conns :
          (CallEnds(p) /\ FailedInCall(p) # {}) => snap[p] \subseteq Range(tried[p])]_vars

\* C2. broadcast_to_unity never raises to its caller: every call returns
\* normally to the read loop of the publisher.
C2_NeverRaises ==
    [][\A p \in Conns : CallEnds(p) => pc'[p] = "read"]_vars

\* C3. The connections a call of broadcast_to_unity attempts a send to are
\* exactly the members of unity_clients when the call began, each once.
C3_ExactlySnapshot ==
    [][\A p \in Conns :
          CallEnds(p) => /\ Range(tried[p]) = snap[p]
                         /\ NoRepeat(tried[p])]_vars

\* C4. When a call of broadcast_to_unity ends, every connection whose send
\* failed in it is absent from unity_clients, and the call has removed no
\* connection whose send succeeded.
C4_FailedAbsent ==
    [][\A p \in Conns :
          CallEnds(p) =>
              /\ FailedInCall(p) \cap unity_clients' = {}
              /\ (unity_clients \ unity_clients') \cap SucceededInCall(p) = {}]_vars

\* C5. A publisher's handler starts the broadcast of its next message only
\* when that of the previous one has ended, and every message a subscriber
\* receives from a publisher is later in that publisher's sending order than
\* all it received from that publisher before.
C5_PublisherOrder ==
    [][/\ \A p \in Conns :
             (message'[p] # message[p] /\ message'[p] # NoMsg) => message[p] = NoMsg
       /\ \A s \in Conns : \A m \in received'[s] \ received[s] :
             \A e \in received[s] : e.src = m.src => e.seq < m.seq]_vars

\* A subscriber holds two messages of one publisher.
C5_Witness ==
    \E s \in Conns : \E p \in Conns :
        Data(p, 1) \in received[s] /\ Data(p, 2) \in received[s]

\* C6. A publisher's handler ends only because its own transport closed or
\* its own receive failed.
C6_OwnExitOnly ==
    \A p \in Publishers :
        pc[p] \in Ended => cause[p] \in {"closed", "receive_error"}

\* C7 as stated: a member of a registry has an open transport and a handler
\* that has not ended.
C7_MemberOnlyWhileOpen ==
    \A c \in unity_clients \cup browser_clients : open[c] /\ pc[c] \in Live

\* C7, amended: a member of a registry is a connection whose handler
\* registered it there and has not ended (its transport may have closed).
C7_MemberOnlyWhileHandlerRuns ==
    /\ \A c \in browser_clients : pc[c] \in {"read", "bcast"}
    /\ \A c \in unity_clients : pc[c] \in {"hs", "wait"}

\* A registered connection whose transport has closed, and an ended handler.
C7_Witness ==
    /\ \E c \in unity_clients \cup browser_clients : ~open[c]
    /\ \E c \in Conns : pc[c] \in Ended

\* K: connections of the role registered so far; J: those that disconnected
\* (their handler ran its cleanup and ended).
K(role) == Cardinality({c \in Conns : pc[c] # "new" /\ Role(path[c]) = role})
J(role) == Cardinality({c \in Conns : pc[c] \in Ended /\ Role(path[c]) = role})

\* C8 as stated: the size of each registry is K - J.
C8_SizeIsKMinusJ ==
    /\ Cardinality(browser_clients) = K("publisher") - J("publisher")
    /\ Cardinality(unity_clients) = K("subscriber") - J("subscriber")

\* C8, amended: the size of browser_clients is K - J; the size of
\* unity_clients is K - J less the subscribers that a broadcast discarded
\* after a failed send and that have not disconnected yet.
C8_SizeLessPruned ==
    /\ Cardinality(browser_clients) = K("publisher") - J("publisher")
    /\ Cardinality(unity_clients) =
           K("subscriber") - J("subscriber") - Cardinality(pruned)

\* A subscriber has disconnected and another one has been discarded by a
\* broadcast while its handler still runs.
C8_Witness == J("subscriber") >= 1 /\ pruned # {}

\* C9. Scoped cleanup: a connection whose handler has ended, by whichever
\* exit, is in neither registry.
C9_CleanupOnEveryExit ==
    \A c \in Conns :
        pc[c] \in Ended => c \notin unity_clients /\ c \notin browser_clients

\* Handlers have ended by each exit: transport closed, receive error, and an
\* exception escaping broadcast_to_unity.
C9_Witness ==
    /\ \E c \in Conns : cause[c] = "RuntimeError"
    /\ \E c \in Conns : cause[c] = "receive_error"
    /\ \E c \in Conns : cause[c] = "closed"

\* C10. messages_forwarded equals the number of forwarded sends that returned
\* normally; it changes only in a step of broadcast_to_unity in which a send
\* returned, and then by exactly +1.
C10_CounterCountsSends ==
    /\ [](messages_forwarded = successes)
    /\ [][messages_forwarded' # messages_forwarded =>
             /\ messages_forwarded' = messages_forwarded + 1
             /\ \E p \in Iterating : message[p] \in received'[client[p]]]_vars

\* A broadcast is suspended in a send to a subscriber that holds a message
\* of another publisher: the sends of two publishers have been counted.
C10_Witness ==
    \E p \in Iterating : \E q \in Conns \ {p} :
        /\ Data(q, 1) \in received[client[p]]
        /\ messages_forwarded >= 1

\* The step in which publisher p receives a message and calls
\* broadcast_to_unity with it.
Calls(p) ==
    /\ pc[p] = "read"
    /\ Len(inbox'[p]) = Len(inbox[p]) - 1
    /\ cause'[p] = cause[p]

\* C11: a call of broadcast_to_unity made while unity_clients is empty does
\* nothing: no send is attempted, messages_forwarded and both registries keep
\* their values, and the publisher's handler is back in its receive with no
\* error raised.
C11_EmptyIsNoOp ==
    [][\A p \in Conns :
          (Calls(p) /\ unity_clients = {}) =>
              /\ pc'[p] = "read"
              /\ client'[p] = NoConn /\ tried'[p] = <<>>
              /\ UNCHANGED <<unity_clients, browser_clients,
                             messages_forwarded, received, hs_calls>>]_vars

\* A publisher has had a message broadcast although no subscriber ever
\* registered.
C11_Witness ==
    /\ \A c \in Conns : hs_calls[c] = 0
    /\ \E p \in Conns :
          pc[p] = "read" /\ nsent[p] > Len(inbox[p]) /\ p \in browser_clients
    /\ unity_clients = {} /\ messages_forwarded = 0

\* C12: routing is total and exclusive: a connection is in browser_clients
\* only if its path is "/browser" and in unity_clients only if it is anything
\* else, no connection is in both, the handler registers every connection in
\* the registry of its path, and neither the path nor the registry of a
\* connection changes afterwards.
C12_RoutingByPath ==
    /\ [](\A c \in Conns :
            /\ c \in browser_clients => path[c] = BrowserPath
            /\ c \in unity_clients => (path[c] \in Paths /\ path[c] # BrowserPath)
            /\ ~(c \in browser_clients /\ c \in unity_clients))
    /\ [][\A c \in Conns :
            /\ (pc[c] = "new" /\ pc'[c] # "new") =>
                  /\ path'[c] \in Paths
                  /\ c \in browser_clients' <=> path'[c] = BrowserPath
                  /\ c \in unity_clients' <=> path'[c] # BrowserPath
            /\ pc[c] # "new" =>
                  /\ path'[c] = path[c]
                  /\ c \in browser_clients' => c \in browser_clients
                  /\ c \in unity_clients' => c \in unity_clients]_vars

\* A publisher and two subscribers that presented different paths are
\* registered.
C12_Witness ==
    \E a, b, c \in Conns :
        /\ a \in browser_clients
        /\ b \in unity_clients /\ c \in unity_clients
        /\ path[b] # path[c]

\* C13: the handshake send is called exactly once on every subscriber, on no
\* publisher, and only on a connection that has been registered; it is not
\* called again however long the subscriber stays.
C13_HandshakeOnce ==
    \A c \in Conns :
        /\ hs_calls[c] = (IF c \in Subscribers THEN 1 ELSE 0)
        /\ c \in unity_clients => hs_calls[c] = 1

\* A subscriber has stayed through a broadcast that reached it, and another
\* has come and gone.
C13_Witness ==
    \E s, t \in Conns :
        /\ pc[s] = "wait" /\ received[s] # {} /\ hs_calls[s] = 1
        /\ pc[t] = "done" /\ path[t] # BrowserPath /\ hs_calls[t] = 1

\* The step in which the handshake send of subscriber c ends by raising.
HandshakeFails(c) == pc[c] = "hs" /\ pc'[c] # "hs" /\ hs_result'[c] = "failed"

\* C14: a handshake send that fails is swallowed: the handler goes on to
\* wait_closed instead of ending, the registries are left as they are (the
\* subscriber stays registered), and no other connection's handler,
\* transport, iteration or deliveries are touched.
C14_HandshakeFailureSwallowed ==
    /\ [](\A c \in Conns : hs_result[c] = "failed" => pc[c] = "wait")
    /\ [][\A c \in Conns :
            HandshakeFails(c) =>
                /\ pc'[c] = "wait"
                /\ \A d \in Conns \ {c} : pc'[d] = pc[d]
                /\ UNCHANGED <<unity_clients, browser_clients, open, si_rem,
                               received, cause, messages_forwarded>>]_vars

\* A subscriber whose handshake send failed waits registered, next to one
\* whose handshake was delivered.
C14_Witness ==
    \E c, d \in Conns :
        /\ hs_result[c] = "failed" /\ pc[c] = "wait" /\ c \in unity_clients
        /\ hs_result[d] = "delivered" /\ d \in unity_clients

\* C15: forwarding is verbatim and creates nothing: every forwarded message a
\* subscriber has got is, unaltered, a message that a publisher's remote end
\* sent and that the relay has read, and the value a broadcast sends stays
\* the message it was called with for every recipient of the call.
C15_Verbatim ==
    /\ \A s \in Conns : \A m \in received[s] :
          /\ m.src \in Conns /\ path[m.src] = BrowserPath
          /\ m.seq \in 1..(nsent[m.src] - Len(inbox[m.src]))
          /\ m = Data(m.src, m.seq)
    /\ \A p \in Iterating : message[p] = Data(p, nsent[p] - Len(inbox[p]))

\* One broadcast has reached two subscribers with the same message.
C15_Witness ==
    \E s, t \in Conns : \E p \in Conns :
        /\ s # t
        /\ Data(p, 1) \in received[s]
        /\ Data(p, 1) \in received[t]

\* C16: the relay never sends anything to a publisher: no forwarded message
\* reaches one, no handshake send is called on one, and no broadcast has one
\* as the client of a send or ahead of its cursor.
C16_NothingToPublishers ==
    \A c \in Conns :
        path[c] = BrowserPath =>
            /\ received[c] = {}
            /\ hs_calls[c] = 0 /\ hs_result[c] = "none"
            /\ c \notin unity_clients
            /\ \A p \in Iterating : client[p] # c /\ c \notin si_rem[p]

\* Two publishers are registered while the message of one of them has
\* reached a subscriber.
C16_Witness ==
    \E p, q, s \in Conns :
        /\ p # q
        /\ p \in browser_clients /\ q \in browser_clients
        /\ Data(q, 1) \in received[s]

\* The step in which the call of p goes from one send to the next.
LoopGoesOn(p) == pc[p] = "bcast" /\ pc'[p] = "bcast" /\ tried'[p] # tried[p]

\* C17: pruning is deferred: while the loop of a call goes on to another
\* client the call removes nothing from unity_clients and only collects the
\* failed client in dead; a call removes members only in the step in which
\* its iteration is exhausted, after the send to every client it visited has
\* ended.
C17_DeferredPruning ==
    [][\A p \in Conns :
          /\ LoopGoesOn(p) =>
                /\ unity_clients' = unity_clients
                /\ dead'[p] = failed'[p]
                /\ dead[p] \subseteq dead'[p]
          /\ (CallEnds(p) /\ unity_clients' # unity_clients) =>
                /\ si_rem[p] = {}
                /\ pc'[p] = "read"
                /\ unity_clients \ unity_clients' \subseteq Range(tried[p])]_vars

\* In the middle of a call a client whose send failed is in dead and still
\* registered.
C17_Witness ==
    \E p \in Iterating :
        /\ dead[p] # {}
        /\ dead[p] \subseteq unity_clients
        /\ client[p] \notin dead[p]

\* C18: the handshake is the first message every subscriber gets: a
\* subscriber that has got a forwarded message has got its handshake, or has
\* it in flight ahead of that message (the transport keeps the order in
\* which the sends were begun).
C18_HandshakeFirst ==
    \A s \in Conns : received[s] # {} => hs_result[s] # "failed"

\* C18, amended: the handshake send of a subscriber is begun before any
\* forwarded message is sent to it: every client a broadcast is sending to or
\* has ahead of its cursor, and every connection that has got a forwarded
\* message, has had its handshake send called, also while that send is still
\* pending.  Only a subscriber whose handshake send failed can have forwarded
\* messages without the handshake.
C18_HandshakeBegunFirst ==
    /\ \A p \in Iterating :
          /\ hs_calls[client[p]] = 1
          /\ \A c \in si_rem[p] : hs_calls[c] = 1
    /\ \A s \in Conns :
          received[s] # {} =>
              /\ hs_calls[s] = 1
              /\ pc[s] = "hs" \/ hs_result[s] \in {"delivered", "failed"}

\* A forwarded message has reached a subscriber whose handshake send is
\* still pending.
C18_Witness ==
    \E s \in Conns : pc[s] = "hs" /\ received[s] # {} /\ s \in unity_clients

\* The step in which the call of q begins a send, and the client it is to.
SendBegins(q) ==
    /\ pc'[q] = "bcast"
    /\ pc[q] = "read" \/ tried'[q] # tried[q]

\* C19: a connection that has left its registry is never added to a registry
\* again: no broadcast begins a send to a subscriber that a broadcast has
\* pruned, although its handler still waits in wait_closed, and when that
\* handler ends its discard leaves unity_clients and every running iteration
\* as they are.
C19_RemovedForGood ==
    [][/\ \A c \in Conns :
            (pc[c] # "new" /\ c \notin unity_clients /\ c \notin browser_clients)
                => (c \notin unity_clients' /\ c \notin browser_clients')
       /\ \A q \in Conns :
            SendBegins(q) =>
                (client'[q] \in unity_clients /\ client'[q] \notin pruned)
       /\ \A c \in pruned :
            (pc[c] = "wait" /\ pc'[c] # "wait") =>
                UNCHANGED <<unity_clients, browser_clients, si_rem, si_used>>
      ]_vars

\* A broadcast runs without a pruned subscriber whose transport is open and
\* whose handler still waits.
C19_Witness ==
    \E c \in pruned : \E q \in Iterating :
        /\ pc[c] = "wait" /\ open[c]
        /\ c \notin snap[q] /\ c \notin unity_clients

\* The transport of the accepted connection c has closed.
Closed(c) == pc[c] # "new" /\ ~open[c]

\* C20: under fair scheduling, every connection whose transport has closed
\* is eventually in neither registry and stays out of both from then on,
\* whatever its handler was suspended in when the transport closed.
C20_EventuallyDeregistered ==
    \A c \in Conns :
        [](Closed(c) => <>[](c \notin unity_clients /\ c \notin browser_clients))

\* A publisher's transport is closed while the publisher is suspended in a
\* send of its broadcast, and a subscriber whose transport closed is gone
\* from unity_clients after its handler ended.
C20_Witness ==
    \E p, s \in Conns :
        /\ pc[p] = "bcast" /\ ~open[p] /\ p \in browser_clients
        /\ pc[s] = "done" /\ cause[s] = "closed" /\ s \notin unity_clients
        /\ path[s] # BrowserPath

====
